---- MODULE Spec2Model ----
(***************************************************************************)
(* DataCollectionAgent (agent/data_collection_agent.py): the adaptive      *)
(* collection loop collect_data, the strategy adjuster, validation and     *)
(* storage.                                                                *)
(*                                                                         *)
(* Python dicts are TLA+ functions over their keys, so config[k] raising   *)
(* KeyError is  k \notin DOMAIN config .  Floats are exact rationals       *)
(* <<numerator, denominator>> with a positive denominator: a / b < 0.8 is  *)
(* decided by cross multiplication, which agrees with the correctly        *)
(* rounded IEEE division for the small counters reached here.              *)
(***************************************************************************)
EXTENDS Integers, Sequences, FiniteSets, TLC

VARIABLES
    config,            \* self.config, read-only after construction
    data_store,        \* self.data_store
    collection_stats,  \* self.collection_stats
    delay_multiplier,  \* self.delay_multiplier, a rational <<num, den>>
    current_api,       \* self.current_api
    now,               \* datetime.now(), in hours
    pc,                \* position of the caller / of collect_data
    error,             \* the exception that left collect_data ("" when none)
    quality_score,     \* local quality_score of collect_data
    data,              \* local data of collect_data
    processed_data,    \* local processed_data of collect_data
    adjust_calls,      \* history: adjust_strategy calls in this iteration
    fetches,           \* history: make_api_request calls so far
    store_before,      \* history: data_store at the top of this iteration
    stats_before,      \* history: collection_stats when this iteration began
    iteration,         \* history: iterations of the loop started so far
    sleeps,            \* history: time.sleep calls so far
    last_sleep,        \* history: the duration given to the last time.sleep
    returned,          \* the value returned to a client that called a method
    request_url,       \* the URL of the last requests.get, "" before the first
    saved,             \* the files written: raw and processed snapshots
    twin               \* a second run fed the same outcomes, when there is one

vars == <<config, data_store, collection_stats, delay_multiplier, current_api,
          now, pc, error, quality_score, data, processed_data,
          adjust_calls, fetches, store_before, stats_before, iteration, sleeps,
          last_sleep, returned, request_url, saved, twin>>

(***************************************************************************)
(* Bounds of the model.                                                    *)
(***************************************************************************)
MaxRequests == 3
MaxBatch == 2
MaxClock == 1
MaxTotal == 20
MaxAdjustCalls == 2
MaxResumeTotal == 5
MaxExtra == 2
MaxStore == 2
MaxAnyCardRequests == 2
MaxMixTotal == 2
MaxMixCalls == 4
MaxTwinRequests == 2

(***************************************************************************)
(* Rationals.                                                              *)
(***************************************************************************)
Rat(n, d) == <<n, d>>
RatLess(a, b) == a[1] * b[2] < b[1] * a[2]
RatEq(a, b) == a[1] * b[2] = b[1] * a[2]
RatTimes(a, b) == <<a[1] * b[1], a[2] * b[2]>>

\* No snapshot written; cycle_raw and cycle_processed tell whether the
\* current iteration has written one.
NoFiles == [raw |-> 0, processed |-> 0, cycle_raw |-> FALSE, cycle_processed |-> FALSE]

\* There is one run only.
NoTwin == [turn |-> "none"]

\* What a client holds before it has called anything.
NoValue == [call |-> "", value |-> Rat(0, 1)]

(***************************************************************************)
(* Dict helpers.                                                           *)
(***************************************************************************)
Without(d, key) == [k \in DOMAIN d \ {key} |-> d[k]]
Get(d, key, default) == IF key \in DOMAIN d THEN d[key] ELSE default

(***************************************************************************)
(* Configurations: load_config merges the defaults of agent_settings,      *)
(* api_settings and data_quality; name, required_fields, max_age_hours,    *)
(* primary_api, fallback_apis and the storage section have no default.     *)
(***************************************************************************)
FullConfig(n) ==
    [agent_settings |-> [name |-> "agent", base_delay |-> 1,
                         max_requests |-> n, timeout |-> 10],
     api_settings   |-> [primary_api |-> "primary",
                         fallback_apis |-> <<"fallback1", "fallback2">>],
     data_quality   |-> [required_fields |-> <<"name", "elixir_cost">>,
                         max_age_hours |-> 0],
     storage        |-> [raw_data_path |-> "raw",
                         processed_data_path |-> "processed",
                         filename_template |-> "t"]]

\* The last variant has a base_delay key at the top level of the file (and a
\* required field no record has).
ConfigVariants(n) ==
    LET c == FullConfig(n)
        d == [c EXCEPT !.data_quality.required_fields = <<"name", "id">>]
    IN
    { c,
      [c EXCEPT !.api_settings = Without(Without(@, "primary_api"), "fallback_apis")],
      [c EXCEPT !.data_quality = Without(@, "required_fields")],
      [c EXCEPT !.data_quality.required_fields = <<"name", "id">>],
      [c EXCEPT !.data_quality = Without(@, "max_age_hours")],
      Without(c, "storage"),
      [c EXCEPT !.storage = Without(@, "processed_data_path")],
      [k \in DOMAIN d \cup {"base_delay"} |-> IF k = "base_delay" THEN 2 ELSE d[k]] }

\* A configuration that requires only the name of a record, so that every
\* named card is accepted, and sets agent_settings.base_delay.
AnyCardConfig(n) ==
    [FullConfig(n) EXCEPT !.data_quality.required_fields = <<"name">>,
                          !.agent_settings.base_delay = 3]

Configs ==
    UNION { ConfigVariants(n) : n \in -1 .. MaxRequests }
    \cup { AnyCardConfig(n) : n \in 1 .. MaxAnyCardRequests }

(***************************************************************************)
(* Raw API items and responses.                                            *)
(***************************************************************************)
Knight == [name |-> "Knight", elixirCost |-> 3, type |-> "Troop", rarity |-> "Common"]
Mirror == [name |-> "Mirror", type |-> "Spell", rarity |-> "Epic"]
Nameless == [elixirCost |-> 2, type |-> "Spell", rarity |-> "Rare"]
RawItems == {Knight, Mirror, Nameless}

RECURSIVE SeqsUpTo(_, _)
SeqsUpTo(S, n) ==
    IF n = 0 THEN {<<>>}
    ELSE LET shorter == SeqsUpTo(S, n - 1) IN
         shorter \cup { Append(s, x) : s \in {t \in shorter : Len(t) = n - 1}, x \in S }

None == [kind |-> "None", items |-> <<>>]

\* What response.json() of a 200 response can be.
Bodies ==
    { [kind |-> k, items |-> <<>>] :
        k \in {"invalid_json", "not_a_dict", "empty_dict", "no_items", "bad_items"} }
    \cup { [kind |-> "items", items |-> b] : b \in SeqsUpTo(RawItems, MaxBatch) }

StatusCodes == {200, 401, 403, 429, 500}
Exceptions == {"gaierror", "socket.timeout", "Timeout", "ConnectionError",
               "RequestException", "Exception"}

\* One outcome of the fetch: an exception of the transport, or a response;
\* io_ok is whether os.makedirs of the raw path succeeds, write_ok whether
\* the raw file can be opened and written.
Outcomes ==
    { [exc |-> e, status |-> 0, body |-> None, io_ok |-> TRUE, write_ok |-> TRUE] :
        e \in Exceptions }
    \cup { [exc |-> "", status |-> s, body |-> None, io_ok |-> TRUE, write_ok |-> TRUE] :
             s \in StatusCodes \ {200} }
    \cup { [exc |-> "", status |-> 200, body |-> b, io_ok |-> TRUE, write_ok |-> TRUE] :
             b \in Bodies }
    \cup { [exc |-> "", status |-> 200, body |-> [kind |-> "items", items |-> <<Knight>>],
            io_ok |-> ok[1], write_ok |-> ok[2]] : ok \in {<<FALSE, TRUE>>, <<TRUE, FALSE>>} }

(***************************************************************************)
(* collection_complete, get_success_rate.                                  *)
(***************************************************************************)
\* Mutant: the bound is tested with > instead of >=.
CollectionComplete_Strict ==
    collection_stats.total_requests > config.agent_settings.max_requests

CollectionComplete ==
    collection_stats.total_requests >= config.agent_settings.max_requests

\* Mutant: no request yet counts as no success yet.
GetSuccessRate_Pessimistic ==
    IF collection_stats.total_requests = 0 THEN Rat(0, 1)
    ELSE Rat(collection_stats.successful_requests, collection_stats.total_requests)

GetSuccessRate ==
    IF collection_stats.total_requests = 0 THEN Rat(1, 1)
    ELSE Rat(collection_stats.successful_requests, collection_stats.total_requests)

(***************************************************************************)
(* Quality metrics.  Truthy is Python truthiness of a record field: the    *)
(* integer field is falsy at 0, the string fields at "".                   *)
(***************************************************************************)
\* Mutant: only the empty string is falsy, a cost of 0 is a value.
Truthy_ZeroIsValue(item, field) ==
    IF field = "collected_at" THEN TRUE
    ELSE IF field = "elixir_cost" THEN TRUE
    ELSE item[field] # ""

Truthy(item, field) ==
    IF field = "collected_at" THEN TRUE      \* an isoformat string, never empty
    ELSE IF field = "elixir_cost" THEN item[field] # 0
    ELSE item[field] # ""

HasAll(item, required_fields) ==
    \A i \in 1 .. Len(required_fields) :
        required_fields[i] \in DOMAIN item /\ Truthy(item, required_fields[i])

\* KeyErrors a call raises, as predicates on the configuration.
RequiredFieldsMissing == "required_fields" \notin DOMAIN config.data_quality
MaxAgeMissing == "max_age_hours" \notin DOMAIN config.data_quality

CompleteItems(store) ==
    Cardinality({ i \in 1 .. Len(store) : HasAll(store[i], config.data_quality.required_fields) })

\* A collected_at that datetime.fromisoformat rejects; the timestamps it
\* accepts are hours on the clock.
Unparsable == -1
ParsesIso(t) == t # Unparsable

\* Mutant: a record whose timestamp cannot be read is taken as fresh.
FreshItems_TrustsUnreadable(store) ==
    Cardinality({ i \in 1 .. Len(store) :
        /\ "collected_at" \in DOMAIN store[i]
        /\ (ParsesIso(store[i].collected_at) =>
               now - store[i].collected_at <= config.data_quality.max_age_hours) })

FreshItems(store) ==
    Cardinality({ i \in 1 .. Len(store) :
        /\ "collected_at" \in DOMAIN store[i]
        /\ ParsesIso(store[i].collected_at)
        /\ now - store[i].collected_at <= config.data_quality.max_age_hours })

\* check_timeliness: 0 on an empty store, else fresh / len.
CheckTimeliness(store) ==
    IF Len(store) = 0 THEN Rat(0, 1) ELSE Rat(FreshItems(store), Len(store))

\* assess_data_quality on a non-empty store:
\* (complete/n + 0.9 + 0.85 + fresh/n) / 4
\* Mutant: the four scores are summed and not averaged.
QualityOf_Sum(store) ==
    IF Len(store) = 0 THEN Rat(0, 1)
    ELSE Rat(20 * CompleteItems(store) + 20 * FreshItems(store) + 35 * Len(store),
             20 * Len(store))

\* Mutant: the two constant scores are left out of the mean.
QualityOf_MeasuredOnly(store) ==
    IF Len(store) = 0 THEN Rat(0, 1)
    ELSE Rat(CompleteItems(store) + FreshItems(store), 2 * Len(store))

QualityOf(store) ==
    IF Len(store) = 0 THEN Rat(0, 1)
    ELSE Rat(20 * CompleteItems(store) + 20 * FreshItems(store) + 35 * Len(store),
             80 * Len(store))

AssessRaises == Len(data_store) > 0 /\ (RequiredFieldsMissing \/ MaxAgeMissing)

(***************************************************************************)
(* adjust_strategy and try_fallback_api.                                   *)
(***************************************************************************)
FallbackApis == Get(config.api_settings, "fallback_apis", <<>>)

\* Mutant: the last fallback is selected instead of the first.
TryFallbackApi_Last(api) ==
    IF Len(FallbackApis) > 0 /\ api # FallbackApis[Len(FallbackApis)]
    THEN FallbackApis[Len(FallbackApis)] ELSE api

\* Mutant: each call moves on to the fallback after the current one.
TryFallbackApi_Next(api) ==
    IF Len(FallbackApis) = 0 THEN api
    ELSE IF \E i \in 1 .. Len(FallbackApis) - 1 : FallbackApis[i] = api
    THEN FallbackApis[(CHOOSE i \in 1 .. Len(FallbackApis) - 1 : FallbackApis[i] = api) + 1]
    ELSE IF api # FallbackApis[1] THEN FallbackApis[1] ELSE api

TryFallbackApi(api) ==
    IF Len(FallbackApis) > 0 /\ api # FallbackApis[1] THEN FallbackApis[1] ELSE api

\* Mutant: the aggressive branch multiplies by 0.9.
AdjustedMultiplier_Slow(rate, m) ==
    IF RatLess(rate, Rat(1, 2)) THEN RatTimes(m, Rat(2, 1))
    ELSE IF RatLess(Rat(9, 10), rate) THEN RatTimes(m, Rat(9, 10))
    ELSE m

\* Mutant: both thresholds are inclusive.
AdjustedMultiplier_Inclusive(rate, m) ==
    IF ~ RatLess(Rat(1, 2), rate) THEN RatTimes(m, Rat(2, 1))
    ELSE IF ~ RatLess(rate, Rat(9, 10)) THEN RatTimes(m, Rat(4, 5))
    ELSE m

\* Mutant: the multiplier is doubled once, when the rate first falls below 0.5.
AdjustedMultiplier_OncePerCrossing(rate, m) ==
    IF RatLess(rate, Rat(1, 2)) THEN (IF RatEq(m, Rat(1, 1)) THEN Rat(2, 1) ELSE m)
    ELSE IF RatLess(Rat(9, 10), rate) THEN RatTimes(m, Rat(4, 5))
    ELSE m

\* Mutant: the speed-up branch takes 0.8 off the multiplier.
AdjustedMultiplier_Subtracts(rate, m) ==
    IF RatLess(rate, Rat(1, 2)) THEN RatTimes(m, Rat(2, 1))
    ELSE IF RatLess(Rat(9, 10), rate) THEN <<5 * m[1] - 4 * m[2], 5 * m[2]>>
    ELSE m

AdjustedMultiplier(rate, m) ==
    IF RatLess(rate, Rat(1, 2)) THEN RatTimes(m, Rat(2, 1))
    ELSE IF RatLess(Rat(9, 10), rate) THEN RatTimes(m, Rat(4, 5))
    ELSE m

AdjustedApi(rate, api) ==
    IF RatLess(rate, Rat(1, 2)) THEN TryFallbackApi(api) ELSE api

AdjustStrategy ==
    /\ delay_multiplier' = AdjustedMultiplier(GetSuccessRate, delay_multiplier)
    /\ current_api' = AdjustedApi(GetSuccessRate, current_api)
    /\ adjust_calls' = adjust_calls + 1

(***************************************************************************)
(* make_api_request.                                                       *)
(***************************************************************************)
\* save_raw_data raises: config['storage'], one of its keys or the agent's
\* name is missing, os.makedirs fails, or the metadata's completeness score
\* finds no required_fields.
SaveRawRaises(o) ==
    \/ "storage" \notin DOMAIN config
    \/ {"raw_data_path", "filename_template"} \ DOMAIN config.storage # {}
    \/ ~ o.io_ok
    \/ "name" \notin DOMAIN config.agent_settings
    \/ Len(data_store) > 0 /\ RequiredFieldsMissing

\* The 200 branch raises after the success counter was incremented:
\* response.json() fails, the body has no .get or its items have no len(),
\* or save_raw_data raises.  The last except clause catches each of them.
SuccessBranchRaises(o) ==
    \/ o.body.kind \in {"invalid_json", "not_a_dict"}
    \/ SaveRawRaises(o)

Succeeds(o) == o.exc = "" /\ o.status = 200

\* Mutant: the 429 branch forgets to count the failure.
StatsAfter_ForgetsRateLimit(stats, o) ==
    LET counted == [stats EXCEPT !.total_requests = @ + 1] IN
    IF Succeeds(o)
    THEN IF SuccessBranchRaises(o)
         THEN [counted EXCEPT !.successful_requests = @ + 1, !.failed_requests = @ + 1]
         ELSE [counted EXCEPT !.successful_requests = @ + 1]
    ELSE IF o.status = 429 THEN counted
    ELSE [counted EXCEPT !.failed_requests = @ + 1]

\* Mutant: a failed request is attempted once more within the same call.
StatsAfter_RetriesFailure(stats, o) ==
    LET counted == [stats EXCEPT !.total_requests = @ + 1] IN
    IF Succeeds(o)
    THEN IF SuccessBranchRaises(o)
         THEN [counted EXCEPT !.successful_requests = @ + 1, !.failed_requests = @ + 1]
         ELSE [counted EXCEPT !.successful_requests = @ + 1]
    ELSE [counted EXCEPT !.total_requests = @ + 1, !.failed_requests = @ + 2]

StatsAfter(stats, o) ==
    LET counted == [stats EXCEPT !.total_requests = @ + 1] IN
    IF Succeeds(o)
    THEN IF SuccessBranchRaises(o)
         THEN [counted EXCEPT !.successful_requests = @ + 1, !.failed_requests = @ + 1]
         ELSE [counted EXCEPT !.successful_requests = @ + 1]
    ELSE [counted EXCEPT !.failed_requests = @ + 1]

ReturnedData(o) ==
    IF Succeeds(o) /\ ~ SuccessBranchRaises(o) THEN o.body ELSE None

\* bool(data) of the returned value.
DataTruthy(d) == d.kind \in {"no_items", "bad_items", "items"}

(***************************************************************************)
(* process_data, validate_data.                                            *)
(***************************************************************************)
ProcessItem(item) ==
    [name         |-> Get(item, "name", ""),
     elixir_cost  |-> Get(item, "elixirCost", 0),
     type         |-> Get(item, "type", ""),
     rarity       |-> Get(item, "rarity", ""),
     collected_at |-> now]

\* The processed list; <<>> also stands for the None returned without 'items'
\* (both are falsy in validate_data).
ProcessData(d) ==
    IF d.kind = "items" THEN [i \in 1 .. Len(d.items) |-> ProcessItem(d.items[i])]
    ELSE <<>>

\* Mutant: a required field only has to be present, whatever it holds.
ValidateData_PresenceOnly(batch) ==
    /\ Len(batch) > 0
    /\ \A i \in 1 .. Len(batch) :
          \A k \in 1 .. Len(config.data_quality.required_fields) :
              config.data_quality.required_fields[k] \in DOMAIN batch[i]

\* Mutant: only the first record of the batch is checked.
ValidateData_FirstOnly(batch) ==
    /\ Len(batch) > 0
    /\ HasAll(batch[1], config.data_quality.required_fields)

ValidateData(batch) ==
    /\ Len(batch) > 0
    /\ \A i \in 1 .. Len(batch) : HasAll(batch[i], config.data_quality.required_fields)

(***************************************************************************)
(* Initial state: a freshly constructed agent.                             *)
(***************************************************************************)
FreshAgent ==
    /\ data_store = <<>>
    /\ collection_stats = [total_requests |-> 0, successful_requests |-> 0,
                           failed_requests |-> 0, data_quality_score |-> 0]
    /\ delay_multiplier = Rat(1, 1)
    /\ current_api = Get(config.api_settings, "primary_api", "default")
    /\ now = 0
    /\ pc = "idle"
    /\ error = ""
    /\ quality_score = Rat(0, 1)
    /\ data = None
    /\ processed_data = <<>>
    /\ adjust_calls = 0
    /\ fetches = 0
    /\ store_before = <<>>
    /\ stats_before = collection_stats
    /\ iteration = 0
    /\ sleeps = 0
    /\ last_sleep = Rat(0, 1)
    /\ returned = NoValue
    /\ request_url = ""
    /\ saved = NoFiles

Init ==
    /\ config \in Configs
    /\ FreshAgent
    /\ twin = NoTwin

(***************************************************************************)
(* collect_data, one action per step of the loop body.                     *)
(***************************************************************************)
Raise(e) == pc' = "raised" /\ error' = e

CollectData ==
    /\ pc = "idle"
    /\ pc' = "while"
    /\ UNCHANGED <<twin, request_url, saved, stats_before, iteration, sleeps, last_sleep, returned, config, data_store, collection_stats, delay_multiplier, current_api,
                   now, error, quality_score, data, processed_data,
                   adjust_calls, fetches, store_before>>

\* The while test.  data and processed_data of the previous iteration are dead
\* here (each is assigned before it is read again), so they are cleared, and
\* so is the duration of the sleep that has returned.
LoopTest ==
    /\ pc = "while"
    /\ pc' = IF CollectionComplete THEN "done" ELSE "assess"
    /\ data' = None
    /\ processed_data' = <<>>
    /\ adjust_calls' = 0
    /\ store_before' = data_store
    /\ stats_before' = IF CollectionComplete THEN stats_before ELSE collection_stats
    /\ iteration' = IF CollectionComplete THEN iteration ELSE iteration + 1
    /\ last_sleep' = Rat(0, 1)
    /\ saved' = [saved EXCEPT !.cycle_raw = FALSE, !.cycle_processed = FALSE]
    /\ UNCHANGED <<twin, request_url, returned, config, data_store, collection_stats, delay_multiplier,
                   current_api, now, error, quality_score, fetches, sleeps>>

\* Mutant: the score is kept in collection_stats.
AssessDataQuality_RecordsScore ==
    /\ pc = "assess"
    /\ IF AssessRaises
       THEN Raise("KeyError") /\ UNCHANGED <<quality_score, collection_stats>>
       ELSE /\ pc' = "adapt"
            /\ quality_score' = QualityOf(data_store)
            /\ collection_stats' =
                  [collection_stats EXCEPT !.data_quality_score = QualityOf(data_store)[1]]
            /\ UNCHANGED error
    /\ UNCHANGED <<twin, request_url, saved, stats_before, iteration, sleeps, last_sleep,
                   returned, config, data_store, delay_multiplier, current_api,
                   now, data, processed_data, adjust_calls, fetches, store_before>>

AssessDataQuality ==
    /\ pc = "assess"
    /\ IF AssessRaises
       THEN Raise("KeyError") /\ UNCHANGED quality_score
       ELSE pc' = "adapt" /\ quality_score' = QualityOf(data_store) /\ UNCHANGED error
    /\ UNCHANGED <<twin, request_url, saved, stats_before, iteration, sleeps, last_sleep, returned, config, data_store, collection_stats, delay_multiplier, current_api,
                   now, data, processed_data, adjust_calls, fetches, store_before>>

\* Mutant: the adjuster is also invoked at exactly 0.8.
NeedsAdjustment_Inclusive == ~ RatLess(Rat(8, 10), GetSuccessRate)

\* Mutant: the adjuster is invoked in every iteration.
NeedsAdjustment_Always == TRUE

NeedsAdjustment == RatLess(GetSuccessRate, Rat(8, 10))

AdaptStrategy ==
    /\ pc = "adapt"
    /\ pc' = "fetch"
    /\ IF NeedsAdjustment
       THEN AdjustStrategy
       ELSE UNCHANGED <<delay_multiplier, current_api, adjust_calls>>
    /\ UNCHANGED <<twin, request_url, saved, stats_before, iteration, sleeps, last_sleep, returned, config, data_store, collection_stats, now, error, quality_score,
                   data, processed_data, fetches, store_before>>

\* The URL is a literal of make_api_request.  The connectivity test comes
\* first: when it raises, requests.get is not reached.
ApiUrl == "https://api.clashroyale.com/v1/cards"

RequestedUrl(o) ==
    IF o.exc \in {"gaierror", "socket.timeout"} THEN request_url ELSE ApiUrl

\* save_raw_data writes the file unless opening or writing it fails, which it
\* logs and swallows.
RawWritten(o) == Succeeds(o) /\ ~ SuccessBranchRaises(o) /\ o.write_ok

SavedAfterFetch(o) ==
    IF RawWritten(o) THEN [saved EXCEPT !.raw = @ + 1, !.cycle_raw = TRUE] ELSE saved

\* Mutant: a 429 response makes the agent back off by itself.
Fetch_BacksOffOnRateLimit(o) ==
    /\ pc = "fetch"
    /\ pc' = "got"
    /\ collection_stats' = StatsAfter(collection_stats, o)
    /\ data' = ReturnedData(o)
    /\ fetches' = fetches + 1
    /\ request_url' = RequestedUrl(o)
    /\ saved' = SavedAfterFetch(o)
    /\ delay_multiplier' = IF o.exc = "" /\ o.status = 429
                           THEN RatTimes(delay_multiplier, Rat(2, 1))
                           ELSE delay_multiplier
    /\ UNCHANGED <<twin, stats_before, iteration, sleeps, last_sleep, returned, config,
                   data_store, current_api, now, error, quality_score,
                   processed_data, adjust_calls, store_before>>

\* Mutant: the request goes to the current endpoint.
Fetch_AsksCurrentApi(o) ==
    /\ pc = "fetch"
    /\ pc' = "got"
    /\ collection_stats' = StatsAfter(collection_stats, o)
    /\ data' = ReturnedData(o)
    /\ fetches' = fetches + 1
    /\ request_url' = current_api
    /\ saved' = SavedAfterFetch(o)
    /\ UNCHANGED <<twin, stats_before, iteration, sleeps, last_sleep, returned, config, data_store, delay_multiplier, current_api, now, error,
                   quality_score, processed_data, adjust_calls, store_before>>

Fetch(o) ==
    /\ pc = "fetch"
    /\ pc' = "got"
    /\ collection_stats' = StatsAfter(collection_stats, o)
    /\ data' = ReturnedData(o)
    /\ fetches' = fetches + 1
    /\ request_url' = RequestedUrl(o)
    /\ saved' = SavedAfterFetch(o)
    /\ UNCHANGED <<twin, stats_before, iteration, sleeps, last_sleep, returned, config, data_store, delay_multiplier, current_api, now, error,
                   quality_score, processed_data, adjust_calls, store_before>>

MakeApiRequest == \E o \in Outcomes : Fetch(o)

Process ==
    /\ pc = "got"
    /\ IF ~ DataTruthy(data)
       THEN pc' = "delay" /\ UNCHANGED <<error, processed_data>>
       ELSE IF data.kind = "bad_items"
       THEN Raise("AttributeError") /\ UNCHANGED processed_data
       ELSE pc' = "validate" /\ processed_data' = ProcessData(data) /\ UNCHANGED error
    /\ UNCHANGED <<twin, request_url, saved, stats_before, iteration, sleeps, last_sleep, returned, config, data_store, collection_stats, delay_multiplier, current_api,
                   now, quality_score, data, adjust_calls, fetches, store_before>>

\* Mutant: a rejected batch is counted as a failed request.
Validate_CountsRejection ==
    /\ pc = "validate"
    /\ IF Len(processed_data) = 0
       THEN pc' = "delay" /\ UNCHANGED <<error, collection_stats>>
       ELSE IF RequiredFieldsMissing
       THEN Raise("KeyError") /\ UNCHANGED collection_stats
       ELSE IF ValidateData(processed_data)
       THEN pc' = "store" /\ UNCHANGED <<error, collection_stats>>
       ELSE /\ pc' = "delay"
            /\ collection_stats' = [collection_stats EXCEPT !.failed_requests = @ + 1]
            /\ UNCHANGED error
    /\ UNCHANGED <<twin, request_url, saved, stats_before, iteration, sleeps, last_sleep, returned, config,
                   data_store, delay_multiplier, current_api, now, quality_score,
                   data, processed_data, adjust_calls, fetches, store_before>>

Validate ==
    /\ pc = "validate"
    /\ IF Len(processed_data) = 0
       THEN pc' = "delay" /\ UNCHANGED error
       ELSE IF RequiredFieldsMissing
       THEN Raise("KeyError")
       ELSE pc' = (IF ValidateData(processed_data) THEN "store" ELSE "delay")
            /\ UNCHANGED error
    /\ UNCHANGED <<twin, request_url, saved, stats_before, iteration, sleeps, last_sleep, returned, config, data_store, collection_stats, delay_multiplier, current_api,
                   now, quality_score, data, processed_data, adjust_calls, fetches,
                   store_before>>

\* save_processed_data raises: no processed_data_path, os.makedirs fails, or
\* check_timeliness finds no max_age_hours.
SaveProcessedRaises(io_ok) ==
    \/ "processed_data_path" \notin DOMAIN config.storage
    \/ ~ io_ok
    \/ MaxAgeMissing

\* Mutant: the batch is put in front of the records already stored.
StoreData_Prepends(batch, io_ok) ==
    /\ data_store' = batch \o data_store
    /\ IF SaveProcessedRaises(io_ok)
       THEN Raise(IF "processed_data_path" \in DOMAIN config.storage /\ ~ io_ok
                  THEN "OSError" ELSE "KeyError")
       ELSE pc' = "delay" /\ UNCHANGED error

StoreData(batch, io_ok) ==
    /\ data_store' = data_store \o batch
    /\ IF SaveProcessedRaises(io_ok)
       THEN Raise(IF "processed_data_path" \in DOMAIN config.storage /\ ~ io_ok
                  THEN "OSError" ELSE "KeyError")
       ELSE pc' = "delay" /\ UNCHANGED error

\* save_processed_data writes the file unless it raised before, or opening
\* or writing the file fails, which it logs and swallows.
SavedAfterStore(io_ok, write_ok) ==
    IF ~ SaveProcessedRaises(io_ok) /\ write_ok
    THEN [saved EXCEPT !.processed = @ + 1, !.cycle_processed = TRUE] ELSE saved

StoreWith(io_ok, write_ok) ==
    /\ pc = "store"
    /\ StoreData(processed_data, io_ok)
    /\ saved' = SavedAfterStore(io_ok, write_ok)
    /\ UNCHANGED <<twin, request_url, stats_before, iteration, sleeps, last_sleep, returned, config, collection_stats, delay_multiplier, current_api, now,
                   quality_score, data, processed_data, adjust_calls, fetches,
                   store_before>>

Store == \E io_ok \in BOOLEAN, write_ok \in BOOLEAN : StoreWith(io_ok, write_ok)

\* respectful_delay reads base_delay at the top level of the configuration.
BaseDelay == Rat(Get(config, "base_delay", 1), 1)

\* random.uniform(0.5, 1.5), sampled at its ends and in the middle.
Jitters == {Rat(1, 2), Rat(1, 1), Rat(3, 2)}

\* Mutant: the jitter is added to the delay and not multiplied into it.
SleepDuration_AddsJitter(jitter) ==
    LET delay == RatTimes(BaseDelay, delay_multiplier) IN
    <<delay[1] * jitter[2] + jitter[1] * delay[2], delay[2] * jitter[2]>>

SleepDuration(jitter) == RatTimes(RatTimes(BaseDelay, delay_multiplier), jitter)

\* time.sleep returns; meanwhile the clock may pass an hour.
RespectfulDelay ==
    /\ pc = "delay"
    /\ pc' = "while"
    /\ \E jitter \in Jitters : last_sleep' = SleepDuration(jitter)
    /\ sleeps' = sleeps + 1
    /\ \E dt \in {0, 1} : now + dt <= MaxClock /\ now' = now + dt
    /\ UNCHANGED <<twin, request_url, saved, stats_before, iteration, returned, config, data_store,
                   collection_stats, delay_multiplier, current_api,
                   error, quality_score, data, processed_data, adjust_calls, fetches,
                   store_before>>

Next ==
    \/ CollectData
    \/ LoopTest
    \/ AssessDataQuality
    \/ AdaptStrategy
    \/ MakeApiRequest
    \/ Process
    \/ Validate
    \/ Store
    \/ RespectfulDelay

Spec == Init /\ [][Next]_vars

(***************************************************************************)
(* An agent whose counters were set by its client, as test_docs.py does,   *)
(* to values a run can produce (successful <= total).                      *)
(***************************************************************************)
PresetStats(max_total) ==
    { [total_requests |-> t, successful_requests |-> s,
       failed_requests |-> t - s, data_quality_score |-> 0] :
        t \in 0 .. max_total, s \in 0 .. max_total }

PresetAgentAt(cfg, stats, store, clock) ==
    /\ config = cfg
    /\ collection_stats = stats
    /\ stats.failed_requests >= 0
    /\ data_store = store
    /\ delay_multiplier = Rat(1, 1)
    /\ current_api = Get(cfg.api_settings, "primary_api", "default")
    /\ now = clock
    /\ pc = "idle"
    /\ error = ""
    /\ quality_score = Rat(0, 1)
    /\ data = None
    /\ processed_data = <<>>
    /\ adjust_calls = 0
    /\ fetches = 0
    /\ store_before = store
    /\ stats_before = collection_stats
    /\ iteration = 0
    /\ sleeps = 0
    /\ last_sleep = Rat(0, 1)
    /\ returned = NoValue
    /\ request_url = ""
    /\ saved = NoFiles
    /\ twin = NoTwin

PresetAgent(cfg, stats) == PresetAgentAt(cfg, stats, <<>>, 0)

\* The api_settings a strategy adjustment can meet.
AdjustConfigs ==
    LET c == FullConfig(0) IN
    { c,
      [c EXCEPT !.api_settings = Without(@, "fallback_apis")],
      [c EXCEPT !.api_settings.fallback_apis = <<>>],
      [c EXCEPT !.api_settings.fallback_apis = <<"primary", "fallback2">>],
      [c EXCEPT !.api_settings = Without(@, "primary_api")] }

InitAdjust == \E cfg \in AdjustConfigs, stats \in PresetStats(MaxTotal) :
                  PresetAgent(cfg, stats)

\* The client calls adjust_strategy itself.
CallAdjustStrategy ==
    /\ pc = "idle"
    /\ adjust_calls < MaxAdjustCalls
    /\ AdjustStrategy
    /\ UNCHANGED <<twin, request_url, saved, stats_before, iteration, sleeps, last_sleep, returned, config, data_store, collection_stats, now, pc, error, quality_score,
                   data, processed_data, fetches, store_before>>

\* The client calls get_success_rate itself.
CallGetSuccessRate ==
    /\ pc = "idle"
    /\ returned' = [call |-> "get_success_rate", value |-> GetSuccessRate]
    /\ UNCHANGED <<twin, request_url, saved, stats_before, iteration, sleeps, last_sleep, config, data_store,
                   collection_stats, delay_multiplier, current_api, now, pc, error,
                   quality_score, data, processed_data, adjust_calls, fetches,
                   store_before>>

NextAdjust == CallAdjustStrategy \/ CallGetSuccessRate

SpecAdjust == InitAdjust /\ [][NextAdjust]_vars

\* A client that calls adjust_strategy again and again and sets the counters
\* in between, so that the calls take any mix of the three branches.
InitMix == \E cfg \in AdjustConfigs, stats \in PresetStats(MaxMixTotal) :
               PresetAgent(cfg, stats)

AdjustAgain ==
    /\ pc = "idle"
    /\ adjust_calls < MaxMixCalls
    /\ AdjustStrategy
    /\ UNCHANGED <<twin, request_url, saved, stats_before, iteration, sleeps, last_sleep, returned, config,
                   data_store, collection_stats, now, pc, error, quality_score,
                   data, processed_data, fetches, store_before>>

SetCounters ==
    /\ pc = "idle"
    /\ \E stats \in PresetStats(MaxMixTotal) :
          /\ stats.failed_requests >= 0
          /\ stats # collection_stats
          /\ collection_stats' = stats
    /\ UNCHANGED <<twin, request_url, saved, stats_before, iteration, sleeps, last_sleep, returned, config,
                   data_store, delay_multiplier, current_api, now, pc, error,
                   quality_score, data, processed_data, adjust_calls, fetches,
                   store_before>>

NextMix == AdjustAgain \/ SetCounters

SpecMix == InitMix /\ [][NextMix]_vars

\* collect_data resumed on preset counters, for up to MaxExtra more requests.
InitResume ==
    \E stats \in PresetStats(MaxResumeTotal), extra \in 0 .. MaxExtra :
        PresetAgent(FullConfig(stats.total_requests + extra), stats)

SpecResume == InitResume /\ [][Next]_vars

(***************************************************************************)
(* An agent whose data_store was set by its client, as test_docs.py does:  *)
(* records process_data made at some hour, a record whose collected_at is  *)
(* not an isoformat string, and a record without collected_at.             *)
(***************************************************************************)
StoredRecords ==
    { [name |-> Get(item, "name", ""), elixir_cost |-> Get(item, "elixirCost", 0),
       type |-> Get(item, "type", ""), rarity |-> Get(item, "rarity", ""),
       collected_at |-> t] : item \in RawItems, t \in 0 .. MaxClock }
    \cup { [name |-> "Knight", elixir_cost |-> 3, type |-> "Troop", rarity |-> "Common",
            collected_at |-> Unparsable],
           [name |-> "Knight", elixir_cost |-> 3, type |-> "Troop", rarity |-> "Common"] }

\* The data_quality sections an assessment can meet.
QualityConfigs ==
    LET c == FullConfig(0) IN
    { c,
      [c EXCEPT !.data_quality.required_fields = <<"name", "id">>],
      [c EXCEPT !.data_quality.max_age_hours = 1],
      [c EXCEPT !.data_quality = Without(@, "required_fields")],
      [c EXCEPT !.data_quality = Without(@, "max_age_hours")] }

InitQuality ==
    \E cfg \in QualityConfigs, stats \in PresetStats(0),
       store \in SeqsUpTo(StoredRecords, MaxStore), clock \in 0 .. MaxClock :
        PresetAgentAt(cfg, stats, store, clock)

\* The client calls assess_data_quality itself.
CallAssessDataQuality ==
    /\ pc = "idle"
    /\ IF AssessRaises
       THEN Raise("KeyError") /\ UNCHANGED returned
       ELSE /\ returned' = [call |-> "assess_data_quality", value |-> QualityOf(data_store)]
            /\ UNCHANGED <<pc, error>>
    /\ UNCHANGED <<twin, request_url, saved, stats_before, iteration, sleeps, last_sleep, config, data_store,
                   collection_stats, delay_multiplier, current_api, now,
                   quality_score, data, processed_data, adjust_calls, fetches,
                   store_before>>

\* The client calls check_timeliness itself.
CallCheckTimeliness ==
    /\ pc = "idle"
    /\ IF Len(data_store) > 0 /\ MaxAgeMissing
       THEN Raise("KeyError") /\ UNCHANGED returned
       ELSE /\ returned' = [call |-> "check_timeliness",
                            value |-> CheckTimeliness(data_store)]
            /\ UNCHANGED <<pc, error>>
    /\ UNCHANGED <<twin, request_url, saved, stats_before, iteration, sleeps, last_sleep, config, data_store,
                   collection_stats, delay_multiplier, current_api, now,
                   quality_score, data, processed_data, adjust_calls, fetches,
                   store_before>>

NextQuality == CallAssessDataQuality \/ CallCheckTimeliness

SpecQuality == InitQuality /\ [][NextQuality]_vars

(***************************************************************************)
(* Two runs of collect_data whose configurations differ in api_settings    *)
(* only, fed the same outcomes.  The runs take turns: the inputs of one    *)
(* iteration are drawn, the first run makes the iteration, then the second *)
(* run makes it on the same inputs.  twin.other holds the run that waits.  *)
(***************************************************************************)
ThisRun ==
    [config |-> config,
     data_store |-> data_store,
     collection_stats |-> collection_stats,
     delay_multiplier |-> delay_multiplier,
     current_api |-> current_api,
     now |-> now,
     pc |-> pc,
     error |-> error,
     quality_score |-> quality_score,
     data |-> data,
     processed_data |-> processed_data,
     adjust_calls |-> adjust_calls,
     fetches |-> fetches,
     store_before |-> store_before,
     stats_before |-> stats_before,
     iteration |-> iteration,
     sleeps |-> sleeps,
     last_sleep |-> last_sleep,
     returned |-> returned,
     request_url |-> request_url,
     saved |-> saved]

Exchange ==
    /\ config' = twin.other.config
    /\ data_store' = twin.other.data_store
    /\ collection_stats' = twin.other.collection_stats
    /\ delay_multiplier' = twin.other.delay_multiplier
    /\ current_api' = twin.other.current_api
    /\ now' = twin.other.now
    /\ pc' = twin.other.pc
    /\ error' = twin.other.error
    /\ quality_score' = twin.other.quality_score
    /\ data' = twin.other.data
    /\ processed_data' = twin.other.processed_data
    /\ adjust_calls' = twin.other.adjust_calls
    /\ fetches' = twin.other.fetches
    /\ store_before' = twin.other.store_before
    /\ stats_before' = twin.other.stats_before
    /\ iteration' = twin.other.iteration
    /\ sleeps' = twin.other.sleeps
    /\ last_sleep' = twin.other.last_sleep
    /\ returned' = twin.other.returned
    /\ request_url' = twin.other.request_url
    /\ saved' = twin.other.saved

\* The api_settings the second run can have.
TwinApiSettings ==
    { [primary_api |-> "primary", fallback_apis |-> <<>>],
      [primary_api |-> "primary"],
      [primary_api |-> "other", fallback_apis |-> <<"fallback2", "fallback1">>],
      [fallback_apis |-> <<"primary">>] }

\* The outcomes the two runs are fed.
TwinOutcomes ==
    { o \in Outcomes :
        \/ o.exc \in {"gaierror", "Timeout"}
        \/ o.exc = "" /\ o.status = 429
        \/ o.exc = "" /\ o.status = 200 /\ o.body.kind = "invalid_json"
        \/ o.exc = "" /\ o.status = 200 /\ o.body.kind = "items"
              /\ Len(o.body.items) = 1 /\ o.body.items[1] \in {Knight, Mirror} }

NoInputs ==
    [turn |-> "draw", base |-> 0, o |-> CHOOSE o \in TwinOutcomes : TRUE,
     io_ok |-> TRUE, store_ok |-> TRUE, dt |-> 0]

InitTwin ==
    \E n \in 0 .. MaxTwinRequests, api \in TwinApiSettings :
        /\ config = FullConfig(n)
        /\ FreshAgent
        /\ twin = [r \in {"other"} |-> [ThisRun EXCEPT
                                !.config = [config EXCEPT !.api_settings = api],
                                !.current_api = Get(api, "primary_api", "default")]]
                   @@ NoInputs

\* The inputs of the next iteration: the outcome of the fetch, whether the
\* directory of the processed file can be made and the file written (asked
\* only when the fetch returns data), and the hours the sleep takes; none of
\* them is asked once the loop is about to end.  Each run draws the jitter of
\* its sleep on its own.
Draw ==
    /\ twin.turn = "draw"
    /\ pc \in {"idle", "while"}
    /\ \E o \in TwinOutcomes, io_ok, ok \in BOOLEAN, dt \in {0, 1} :
          /\ now + dt <= MaxClock
          /\ ~ DataTruthy(ReturnedData(o)) => io_ok /\ ok
          /\ CollectionComplete => o = NoInputs.o /\ io_ok /\ ok /\ dt = 0
          /\ twin' = [twin EXCEPT !.turn = "first", !.base = sleeps, !.o = o,
                                  !.io_ok = io_ok, !.store_ok = ok, !.dt = dt]
    /\ UNCHANGED <<config, data_store, collection_stats, delay_multiplier, current_api, now, pc, error, quality_score, data, processed_data, adjust_calls, fetches, store_before, stats_before, iteration, sleeps, last_sleep, returned, request_url, saved>>

IterationOver == pc \in {"done", "raised"} \/ (pc = "while" /\ sleeps > twin.base)
Running == twin.turn \in {"first", "second"} /\ ~ IterationOver

TwinCollectData == Running /\ CollectData
TwinLoopTest == Running /\ LoopTest
TwinAssessDataQuality == Running /\ AssessDataQuality
TwinAdaptStrategy == Running /\ AdaptStrategy
TwinFetch == Running /\ Fetch(twin.o)
TwinProcess == Running /\ Process
TwinValidate == Running /\ Validate
TwinStore == Running /\ StoreWith(twin.io_ok, twin.store_ok)
TwinRespectfulDelay == Running /\ RespectfulDelay /\ now' = now + twin.dt

\* The first run has made the iteration: the second run takes its turn.
Handover ==
    /\ twin.turn = "first"
    /\ IterationOver
    /\ Exchange
    /\ twin' = [twin EXCEPT !.turn = "second", !.base = twin.other.sleeps,
                            !.other = ThisRun]

\* The second run has made it too.
Rejoin ==
    /\ twin.turn = "second"
    /\ IterationOver
    /\ Exchange
    /\ twin' = [r \in {"other"} |-> ThisRun] @@ NoInputs

NextTwin ==
    \/ Draw
    \/ TwinCollectData
    \/ TwinLoopTest
    \/ TwinAssessDataQuality
    \/ TwinAdaptStrategy
    \/ TwinFetch
    \/ TwinProcess
    \/ TwinValidate
    \/ TwinStore
    \/ TwinRespectfulDelay
    \/ Handover
    \/ Rejoin

SpecTwin == InitTwin /\ [][NextTwin]_vars

(***************************************************************************)
(* Claims.                                                                 *)
(***************************************************************************)
total_requests == collection_stats.total_requests
successful_requests == collection_stats.successful_requests
failed_requests == collection_stats.failed_requests
max_requests == config.agent_settings.max_requests

\* C1: whenever make_api_request has returned, successful_requests +
\* failed_requests = total_requests, for every sequence of fetch outcomes.
C1_CountersBalance == successful_requests + failed_requests = total_requests

\* C2: no fetch cycle is started when total_requests >= max_requests; when
\* collect_data returns on a fresh agent with max_requests = N, exactly N
\* fetches were made and total_requests = N if N >= 0, and none if N <= 0.
C2_ExactlyMaxRequestsFetches ==
    /\ pc \in {"assess", "adapt", "fetch"} => total_requests < max_requests
    /\ pc = "done" =>
         IF max_requests >= 0
         THEN fetches = max_requests /\ total_requests = max_requests
         ELSE fetches = 0 /\ total_requests = 0

C2_Witness ==
    pc = "done" /\ max_requests = 3 /\ fetches = 3 /\ total_requests = 3

\* C3: collect_data always goes on until it returns, and it returns only by
\* reaching total_requests >= max_requests: in every state it has returned
\* or has a next step, and it has ended only if the collection is complete.
C3_EndsOnlyByCompletion ==
    /\ pc = "done" \/ ENABLED Next
    /\ pc \in {"done", "raised"} => total_requests >= max_requests

\* C4: validation is all-or-nothing.  Once a cycle has validated a non-empty
\* processed batch under configured required fields, data_store has grown by
\* nothing if some record lacks a required field or holds an empty value for
\* it, and by exactly the whole batch otherwise; no cycle stores anything
\* but nothing or its whole batch.
BadRecord(item) ==
    \E i \in 1 .. Len(config.data_quality.required_fields) :
        LET f == config.data_quality.required_fields[i] IN
        f \notin DOMAIN item \/ ~ Truthy(item, f)

CycleValidated ==
    /\ pc \in {"delay", "while", "raised"}
    /\ Len(processed_data) > 0
    /\ ~ RequiredFieldsMissing

C4_AllOrNothing ==
    /\ CycleValidated =>
         IF \E i \in 1 .. Len(processed_data) : BadRecord(processed_data[i])
         THEN data_store = store_before
         ELSE data_store = store_before \o processed_data
    /\ pc # "idle" =>
         \/ data_store = store_before
         \/ Len(processed_data) > 0 /\ data_store = store_before \o processed_data

C4_Witness ==
    /\ pc = "delay"
    /\ Len(processed_data) = 2
    /\ ~ BadRecord(processed_data[1])
    /\ BadRecord(processed_data[2])
    /\ data_store = store_before

\* C5: a fetch cycle increments successful_requests only on status 200; on
\* every other outcome failed_requests grows by exactly 1, successful_requests
\* and data_store are unchanged and the cycle returns no data.
C5_OnlyStatus200Succeeds ==
    [][\A o \in Outcomes :
         Fetch(o) =>
           /\ successful_requests' # successful_requests => o.exc = "" /\ o.status = 200
           /\ (o.exc # "" \/ o.status # 200) =>
                /\ failed_requests' = failed_requests + 1
                /\ successful_requests' = successful_requests
                /\ total_requests' = total_requests + 1
                /\ data_store' = data_store
                /\ data' = None]_vars

C5_Witness ==
    /\ pc = "got"
    /\ fetches = 1
    /\ failed_requests = 1
    /\ successful_requests = 0
    /\ data = None

\* C6: no exception reaches the caller of collect_data: after every outcome
\* of a cycle the loop proceeds to the next iteration.
C6_NoErrorReachesCaller == pc # "raised" /\ error = ""

(***************************************************************************)
(* Claims about adjust_strategy, on any counters (SpecAdjust).             *)
(***************************************************************************)
AdjustStep == adjust_calls' = adjust_calls + 1
RateBelow(n, d) == total_requests > 0 /\ d * successful_requests < n * total_requests
RateAbove(n, d) == total_requests = 0 \/ d * successful_requests > n * total_requests
ConfiguredFallbacks ==
    IF "fallback_apis" \in DOMAIN config.api_settings
    THEN config.api_settings.fallback_apis ELSE <<>>

\* C7: an adjustment at success_rate < 0.5 multiplies delay_multiplier by
\* exactly 2 and sets the endpoint to the first fallback when the list is
\* non-empty and its first element differs from the current endpoint;
\* otherwise the endpoint is unchanged.
C7_LowRateDoublesAndFallsBack ==
    [][AdjustStep /\ RateBelow(1, 2) =>
         /\ delay_multiplier' = <<2 * delay_multiplier[1], delay_multiplier[2]>>
         /\ current_api' =
              IF ConfiguredFallbacks # <<>> /\ ConfiguredFallbacks[1] # current_api
              THEN ConfiguredFallbacks[1] ELSE current_api]_vars

C7_Witness ==
    /\ adjust_calls = 1
    /\ total_requests = 10 /\ successful_requests = 3
    /\ delay_multiplier = <<2, 1>>
    /\ current_api = "fallback1"

\* C8: an adjustment at success_rate > 0.9 multiplies delay_multiplier by
\* exactly 0.8 and leaves the endpoint unchanged.
C8_HighRateSpeedsUp ==
    [][AdjustStep /\ RateAbove(9, 10) =>
         /\ delay_multiplier' = <<4 * delay_multiplier[1], 5 * delay_multiplier[2]>>
         /\ current_api' = current_api]_vars

C8_Witness ==
    /\ adjust_calls = 1
    /\ total_requests = 20 /\ successful_requests = 19
    /\ delay_multiplier = <<4, 5>>
    /\ current_api = "primary"

\* C9: an adjustment at 0.5 <= success_rate <= 0.9, the boundaries included,
\* leaves delay_multiplier and the endpoint unchanged.
C9_MidRateChangesNothing ==
    [][AdjustStep /\ ~ RateBelow(1, 2) /\ ~ RateAbove(9, 10) =>
         /\ delay_multiplier' = delay_multiplier
         /\ current_api' = current_api]_vars

C9_Witness ==
    /\ adjust_calls = 1
    /\ total_requests = 10 /\ successful_requests = 5
    /\ delay_multiplier = <<1, 1>>
    /\ ConfiguredFallbacks # <<>> /\ ConfiguredFallbacks[1] # current_api

\* C10: in each iteration the adjuster is invoked exactly when the success
\* rate of the counters before the fetch is strictly below 0.8, and at most
\* once per iteration (SpecResume).
C10_AdjustedIffBelow80 ==
    /\ adjust_calls <= 1
    /\ pc = "fetch" => adjust_calls = (IF RateBelow(8, 10) THEN 1 ELSE 0)

C10_Witness ==
    /\ pc = "fetch"
    /\ total_requests = 5 /\ successful_requests = 4
    /\ adjust_calls = 0

\* C11: get_success_rate returns exactly 1.0 when total_requests = 0 and
\* successful_requests / total_requests otherwise, whatever the counters are.
C11_SuccessRateValue ==
    returned.call = "get_success_rate" =>
        IF total_requests = 0
        THEN returned.value[1] = returned.value[2]
        ELSE returned.value[1] * total_requests
                 = successful_requests * returned.value[2]

C11_Witness ==
    /\ returned.call = "get_success_rate"
    /\ total_requests = 0
    /\ returned.value = <<1, 1>>

\* C12: each loop iteration performs exactly one fetch attempt.  Before the
\* fetch of iteration k there were k - 1 fetches and the counters are those
\* the iteration began with; after it there are k fetches and total_requests
\* is one more, up to the next loop test (a failed fetch is not retried).  No
\* counter ever decreases, and total_requests moves only by a fetch, by 1.
C12_Counters == {"total_requests", "successful_requests", "failed_requests"}

C12_OneFetchPerIteration ==
    /\ [](/\ pc \in {"idle"} => iteration = 0 /\ fetches = 0
          /\ pc \in {"assess", "adapt", "fetch"} =>
                 /\ fetches = iteration - 1
                 /\ collection_stats = stats_before
          /\ (pc \in {"got", "validate", "store", "delay", "raised"}
                 \/ (pc \in {"while", "done"} /\ iteration > 0)) =>
                 /\ fetches = iteration
                 /\ total_requests = stats_before.total_requests + 1)
    /\ [][/\ \A c \in C12_Counters : collection_stats'[c] >= collection_stats[c]
          /\ total_requests' # total_requests =>
                 /\ collection_stats'.total_requests = total_requests + 1
                 /\ fetches' = fetches + 1]_vars

\* Two iterations, two failed fetches, two requests counted.
C12_Witness ==
    /\ pc = "delay"
    /\ iteration = 2
    /\ fetches = 2
    /\ total_requests = 2
    /\ failed_requests = 2

\* C13: when a 200 response returned data whose processed batch fails
\* validation, the cycle ends with successful_requests one more than it began
\* with, failed_requests unchanged and data_store unchanged.
BatchRejected ==
    /\ pc = "delay"
    /\ DataTruthy(data)
    /\ (Len(processed_data) = 0 \/ ~ ValidateData(processed_data))

C13_RejectedBatchCountsAsSuccess ==
    BatchRejected =>
        /\ successful_requests = stats_before.successful_requests + 1
        /\ failed_requests = stats_before.failed_requests
        /\ data_store = store_before

C13_Witness ==
    /\ BatchRejected
    /\ Len(processed_data) = 1
    /\ fetches = 2
    /\ successful_requests = 2
    /\ failed_requests = 0
    /\ Len(data_store) = 1

\* C14: assess_data_quality returns 0 on an empty dataset and otherwise
\* (completeness + 0.9 + 0.85 + timeliness) / 4, where completeness and
\* timeliness are the fractions of complete and of fresh records; on 2 records
\* that are both complete and both within max_age_hours it returns 0.9375.
Assessed == returned.call = "assess_data_quality"

C14_MeanOfFourScores ==
    Assessed =>
        LET n == Len(data_store)
            v == returned.value
        IN /\ n = 0 => v[1] = 0
           /\ n > 0 =>
                \* 4 * v = complete/n + 9/10 + 85/100 + fresh/n, times 100 * n * v[2]
                400 * n * v[1] = (100 * CompleteItems(data_store) + 90 * n + 85 * n
                                    + 100 * FreshItems(data_store)) * v[2]
           /\ (n = 2 /\ CompleteItems(data_store) = 2 /\ FreshItems(data_store) = 2) =>
                10000 * v[1] = 9375 * v[2]

C14_Witness ==
    /\ Assessed
    /\ Len(data_store) = 2
    /\ CompleteItems(data_store) = 2
    /\ FreshItems(data_store) = 2
    /\ 16 * returned.value[1] = 15 * returned.value[2]

\* C15: for every dataset, empty or not, with any mix of complete,
\* incomplete, fresh, stale and unparsable-timestamp records, the value
\* assess_data_quality returns lies in [0, 1].
C15_QualityInUnitInterval ==
    Assessed =>
        /\ returned.value[2] > 0
        /\ 0 <= returned.value[1]
        /\ returned.value[1] <= returned.value[2]

\* An incomplete stale record next to one whose timestamp cannot be parsed.
C15_Witness ==
    /\ Assessed
    /\ Len(data_store) = 2
    /\ ~ HasAll(data_store[1], config.data_quality.required_fields)
    /\ "collected_at" \in DOMAIN data_store[1]
    /\ ParsesIso(data_store[1].collected_at)
    /\ now - data_store[1].collected_at > config.data_quality.max_age_hours
    /\ "collected_at" \in DOMAIN data_store[2]
    /\ ~ ParsesIso(data_store[2].collected_at)
    /\ FreshItems(data_store) = 0

\* C16: every sleep duration d of the pacing step is base_delay *
\* delay_multiplier * jitter with jitter in [0.5, 1.5], base_delay being the
\* value the step reads: 0.5 * base * multiplier <= d <= 1.5 * base *
\* multiplier, and with base 1.0 and multiplier 2.0, 1.0 <= d <= 3.0.
RatLeq(a, b) == a[1] * b[2] <= b[1] * a[2]
Slept == pc = "while" /\ sleeps > 0

SleepWithin(base) ==
    LET paced == RatTimes(base, delay_multiplier) IN
    /\ RatLeq(RatTimes(Rat(1, 2), paced), last_sleep)
    /\ RatLeq(last_sleep, RatTimes(Rat(3, 2), paced))

C16_SleepWithinJitterBounds ==
    Slept =>
        /\ SleepWithin(BaseDelay)
        /\ (RatEq(BaseDelay, Rat(1, 1)) /\ RatEq(delay_multiplier, Rat(2, 1))) =>
               RatLeq(Rat(1, 1), last_sleep) /\ RatLeq(last_sleep, Rat(3, 1))

C16_Witness ==
    /\ Slept
    /\ RatEq(BaseDelay, Rat(1, 1))
    /\ RatEq(delay_multiplier, Rat(2, 1))
    /\ RatEq(last_sleep, Rat(3, 1))

\* C17: the base delay of the inter-request sleep is agent_settings.base_delay
\* (1.0 when absent): with agent_settings.base_delay = b every sleep duration
\* is b * delay_multiplier * jitter, so it lies within 0.5 and 1.5 times
\* b * delay_multiplier.
C17_SleepUsesAgentSettings ==
    Slept => SleepWithin(Rat(Get(config.agent_settings, "base_delay", 1), 1))

\* C18: delay_multiplier is 1.0 when the agent starts, and delay_multiplier
\* and the current endpoint are changed only by the strategy adjuster: the
\* fetch (whatever its outcome, a 429 response included), processing,
\* validation, storage, quality assessment and the delay step leave both as
\* they were.
StrategyState == <<delay_multiplier, current_api>>

C18_OnlyAdjusterChangesStrategy ==
    /\ delay_multiplier = <<1, 1>>
    /\ [][/\ StrategyState' # StrategyState => AdjustStep
          /\ (\/ AssessDataQuality \/ MakeApiRequest \/ Process \/ Validate
              \/ Store \/ RespectfulDelay \/ LoopTest \/ CollectData)
                 => StrategyState' = StrategyState]_vars

\* Two failed cycles: one adjustment before the second fetch, and the
\* strategy is still that adjustment's after the fetch and the sleep.
C18_Witness ==
    /\ pc = "while"
    /\ sleeps = 2
    /\ failed_requests = 2
    /\ delay_multiplier = <<2, 1>>
    /\ current_api = "fallback1"

IsPrefix(s, t) == Len(s) <= Len(t) /\ \A i \in 1 .. Len(s) : t[i] = s[i]

RecordOf(raw, record) ==
    /\ record.name = (IF "name" \in DOMAIN raw THEN raw.name ELSE "")
    /\ record.elixir_cost = (IF "elixirCost" \in DOMAIN raw THEN raw.elixirCost ELSE 0)
    /\ record.type = (IF "type" \in DOMAIN raw THEN raw.type ELSE "")
    /\ record.rarity = (IF "rarity" \in DOMAIN raw THEN raw.rarity ELSE "")

C20_AppendOnly ==
    /\ [](IsPrefix(store_before, data_store))
    /\ [][/\ IsPrefix(data_store, data_store')
          /\ data_store' # data_store =>
                /\ data.kind = "items"
                /\ Len(data_store') = Len(data_store) + Len(data.items)
                /\ \A i \in 1 .. Len(data.items) :
                       RecordOf(data.items[i], data_store'[Len(data_store) + i])]_vars

\* A batch of two different cards stored after an earlier record.
C20_Witness ==
    /\ pc = "delay"
    /\ Len(store_before) = 1
    /\ Len(data_store) = 3
    /\ store_before[1].name = "Knight"
    /\ data_store[2].name = "Mirror"
    /\ data_store[3].name = "Knight"

\* C21: check_timeliness returns the number of records whose collected_at
\* parses and whose age is <= max_age_hours, over the number of all stored
\* records: a record with an unparsable or absent collected_at, or older than
\* max_age_hours, counts below the line only; the result is 0 on an empty
\* dataset.
TimelinessChecked == returned.call = "check_timeliness"

NoTimestamp(store) ==
    { i \in 1 .. Len(store) : "collected_at" \notin DOMAIN store[i] }

BadTimestamp(store) ==
    { i \in 1 .. Len(store) \ NoTimestamp(store) : store[i].collected_at = Unparsable }

TooOld(store) ==
    { i \in (1 .. Len(store)) \ (NoTimestamp(store) \cup BadTimestamp(store)) :
        now - store[i].collected_at > config.data_quality.max_age_hours }

C21_TimelinessFraction ==
    TimelinessChecked =>
        LET n == Len(data_store)
            v == returned.value
        IN IF n = 0 THEN v[1] = 0
           ELSE v[1] * n = v[2] * (n - Cardinality(NoTimestamp(data_store))
                                     - Cardinality(BadTimestamp(data_store))
                                     - Cardinality(TooOld(data_store)))

\* A fresh record next to one whose timestamp cannot be parsed: 1/2.
C21_Witness ==
    /\ TimelinessChecked
    /\ Len(data_store) = 2
    /\ Cardinality(BadTimestamp(data_store)) = 1
    /\ Cardinality(TooOld(data_store)) = 0
    /\ Cardinality(NoTimestamp(data_store)) = 0
    /\ 2 * returned.value[1] = returned.value[2]

\* C22: delay_multiplier is strictly positive in every reachable state, for
\* every sequence of strategy adjustments (any mix of the x2, x0.8 and
\* no-change branches) starting from 1.0.
C22_MultiplierPositive ==
    /\ delay_multiplier[1] > 0
    /\ delay_multiplier[2] > 0

\* Three calls, one through each branch: 1.0 * 2 * 0.8 = 1.6.
C22_Witness ==
    /\ adjust_calls = 3
    /\ delay_multiplier = <<8, 5>>

\* C23: within collect_data delay_multiplier never decreases: the adjuster is
\* invoked only when the success rate is below 0.8, so its x0.8 branch is
\* never taken from the loop, and in every state of the loop delay_multiplier
\* is 2^k for some k >= 0, hence at least 1.0.
PowerOfTwo(m) == \E k \in 0 .. MaxRequests : m[1] = (2 ^ k) * m[2]

C23_NeverSpeedsUpInLoop ==
    /\ [](PowerOfTwo(delay_multiplier) /\ RatLeq(Rat(1, 1), delay_multiplier))
    /\ [][/\ RatLeq(delay_multiplier, delay_multiplier')
          /\ AdjustStep =>
                /\ RateBelow(8, 10)
                /\ ~ RateAbove(9, 10)
                /\ delay_multiplier' \in {delay_multiplier,
                                          RatTimes(delay_multiplier, Rat(2, 1))}]_vars

\* The adjuster is invoked at rate 0.5 and leaves the doubled multiplier.
C23_Witness ==
    /\ pc = "fetch"
    /\ adjust_calls = 1
    /\ total_requests = 2
    /\ successful_requests = 1
    /\ delay_multiplier = <<2, 1>>

\* C24: if every fetch fails, the strategy is not adjusted in the first
\* iteration and delay_multiplier doubles in every later one: once iteration
\* n >= 1 has passed its adjustment step, and after it, delay_multiplier is
\* 2^(n-1), up to 2^(max_requests-1) when collect_data returns.
EveryFetchFailed == successful_requests = 0 /\ failed_requests = total_requests

C24_DoublesEveryFailedIteration ==
    (EveryFetchFailed /\ iteration >= 1) =>
        /\ pc \in {"assess", "adapt"} =>
               /\ adjust_calls = 0
               /\ delay_multiplier =
                      <<(IF iteration = 1 THEN 1 ELSE 2 ^ (iteration - 2)), 1>>
        /\ pc \in {"fetch", "got", "delay", "while", "done"} =>
               /\ pc \in {"fetch", "got", "delay"} =>
                      adjust_calls = (IF iteration = 1 THEN 0 ELSE 1)
               /\ delay_multiplier = <<2 ^ (iteration - 1), 1>>
        /\ pc = "done" => delay_multiplier = <<2 ^ (max_requests - 1), 1>>

C24_Witness ==
    /\ pc = "done"
    /\ EveryFetchFailed
    /\ max_requests = 3
    /\ total_requests = 3
    /\ delay_multiplier = <<4, 1>>

\* C25: the current endpoint is always its initial value (primary_api, or
\* 'default' when none is configured) or fallback_apis[0]; once it is
\* fallback_apis[0] it never changes again, so it never returns to the
\* primary and no later fallback is ever selected, however often a success
\* rate below 0.5 is observed.
InitialEndpoint ==
    IF "primary_api" \in DOMAIN config.api_settings
    THEN config.api_settings.primary_api ELSE "default"

OnFirstFallback ==
    Len(ConfiguredFallbacks) > 0 /\ current_api = ConfiguredFallbacks[1]

C25_EndpointPrimaryOrFirstFallback ==
    /\ [](current_api = InitialEndpoint \/ OnFirstFallback)
    /\ [][OnFirstFallback => current_api' = current_api]_vars

\* Two adjustments at a rate below 0.5: the second finds the first fallback
\* selected and keeps it.
C25_Witness ==
    /\ adjust_calls = 2
    /\ delay_multiplier = <<4, 1>>
    /\ InitialEndpoint = "default"
    /\ current_api = "fallback1"
    /\ Len(ConfiguredFallbacks) = 2

\* C27: when data_store is filled only by the loop (validate, then store),
\* every stored record has every required field present and non-empty in
\* every reachable state, so check_completeness is 1 whenever data_store is
\* not empty.
C27_StoredRecordsComplete ==
    Len(data_store) > 0 =>
        /\ ~ RequiredFieldsMissing
        /\ \A i \in 1 .. Len(data_store) : ~ BadRecord(data_store[i])
        /\ CompleteItems(data_store) = Len(data_store)

C27_Witness ==
    /\ pc = "done"
    /\ Len(data_store) = 3
    /\ CompleteItems(data_store) = 3

\* C28: validate_data treats a falsy value as missing: a batch with one
\* record whose required field holds 0 or the empty string (the defaults the
\* transform uses for a key the raw item lacks) is rejected in full, even
\* when every other record is complete.
HoldsFalsy(record, field) ==
    /\ field \in DOMAIN record
    /\ \/ field = "elixir_cost" /\ record[field] = 0
       \/ field \in {"name", "type", "rarity"} /\ record[field] = ""

HasFalsyRequired(record) ==
    \E k \in 1 .. Len(config.data_quality.required_fields) :
        HoldsFalsy(record, config.data_quality.required_fields[k])

C28_FalsyFieldRejectsBatch ==
    (/\ pc \in {"store", "delay", "while", "raised"}
     /\ Len(processed_data) > 0
     /\ ~ RequiredFieldsMissing
     /\ \E i \in 1 .. Len(processed_data) : HasFalsyRequired(processed_data[i]))
        => pc # "store" /\ data_store = store_before

\* The raw Mirror has no elixirCost, so its record holds 0; the Knight after
\* it is complete, and nothing is stored.
C28_Witness ==
    /\ pc = "delay"
    /\ data.kind = "items"
    /\ data.items = <<Mirror, Knight>>
    /\ processed_data[1].elixir_cost = 0
    /\ ~ HasFalsyRequired(processed_data[2])
    /\ HasFalsyRequired(processed_data[1])
    /\ data_store = store_before

\* C29: on every 200 response with a parsable body the raw payload is saved
\* before processing and validation: a processed snapshot is written only in
\* an iteration that has written the raw snapshot of its response, a cycle
\* that returned data has written a raw snapshot whether or not its batch is
\* then accepted, and there are never fewer raw than processed snapshots.
C29_RawSavedBeforeProcessed ==
    /\ saved.raw >= saved.processed
    /\ saved.cycle_processed => saved.cycle_raw
    /\ (pc \in {"got", "validate", "store", "delay"} /\ data # None) => saved.cycle_raw

\* C30: the quality score computed at the top of each iteration is discarded.
\* Computing it changes no agent state, collection_stats['data_quality_score']
\* keeps its initial 0 for the whole run, and termination, strategy
\* adjustment, validation and storage are decided by the counters, the batch
\* and the configuration alone.
AgentState ==
    <<config, data_store, collection_stats, delay_multiplier, current_api,
      request_url, saved>>

BatchAccepted ==
    /\ Len(processed_data) > 0
    /\ \A i \in 1 .. Len(processed_data) : ~ BadRecord(processed_data[i])

C30_QualityScoreDiscarded ==
    /\ [](collection_stats.data_quality_score = 0)
    /\ [][/\ AssessDataQuality => AgentState' = AgentState
          /\ quality_score' # quality_score => AssessDataQuality
          /\ LoopTest => ((pc' = "done") <=> (total_requests >= max_requests))
          /\ AdaptStrategy => (AdjustStep <=> RateBelow(8, 10))
          /\ (Validate /\ pc' # "raised") => ((pc' = "store") <=> BatchAccepted)
          /\ data_store' # data_store => (pc = "store" /\ BatchAccepted)]_vars

\* A run that ended with a score of 0.9375 computed and nothing recorded.
C30_Witness ==
    /\ pc = "done"
    /\ 16 * quality_score[1] = 15 * quality_score[2]
    /\ collection_stats.data_quality_score = 0

\* C26: the URL a fetch cycle requests is the same fixed endpoint in every
\* cycle and does not depend on the current endpoint: two runs that differ
\* only in current_api / fallback_apis and receive the same sequence of fetch
\* outcomes have, after every iteration, issued the same request and reached
\* the same counters, delay_multiplier and data_store.
RunsAgree ==
    /\ request_url = twin.other.request_url
    /\ fetches = twin.other.fetches
    /\ collection_stats = twin.other.collection_stats
    /\ delay_multiplier = twin.other.delay_multiplier
    /\ data_store = twin.other.data_store
    /\ pc = twin.other.pc

C26_EndpointDoesNotReachRequest ==
    /\ request_url \in {"", ApiUrl}
    /\ twin.turn = "draw" => RunsAgree

\* Both runs have ended after a failed and a stored cycle; the first run
\* switched to its fallback, the second has none.
C26_Witness ==
    /\ twin.turn = "draw"
    /\ pc = "done"
    /\ fetches = 2
    /\ Len(data_store) = 1
    /\ delay_multiplier = <<2, 1>>
    /\ request_url = ApiUrl
    /\ current_api = "fallback1"
    /\ twin.other.current_api = "primary"
    /\ RunsAgree

=============================================================================
